---- MODULE Spec2Model ----
(***************************************************************************)
(* Model of helper.py: infer_independent builds a likelihood closure over  *)
(* (d, model), hands it to calibr8.infer_independent and returns what that *)
(* routine returns.  The closure, likelihood_wrapper, dispatches on scan_x *)
(* to likelihood_dilution, which composes the per-dilution log-likelihoods.*)
(*                                                                         *)
(* Numbers are exact rationals <<n, q>> (q > 0, lowest terms).  A numpy    *)
(* value is a record [shape, data]; the result of numpy.exp is a record    *)
(* [shape, exp_of] holding the exponents.                                  *)
(***************************************************************************)
EXTENDS Integers, Sequences, FiniteSets, TLC

VARIABLES
    pc,         \* position of infer_independent: idle, routine, returned, raised
    model,      \* the calibration model bound by the closure
    d,          \* the dilution vector bound by the closure
    y,          \* the caller's observation vector
    args,       \* the caller's lower, upper and optional steps, ci_prob
    calls,      \* invocations of calibr8.infer_independent made by this call
    last,       \* the latest evaluation of likelihood_wrapper
    first,      \* outcome of each evaluation taken as the first one of the call
    posterior,  \* the result object of calibr8.infer_independent
    ret         \* what infer_independent returned to its caller

vars == <<pc, model, d, y, args, calls, last, first, posterior, ret>>

\* ---------------------------------------------------------------- bounds
MaxN == 2          \* longest dilution / observation vector
MaxM == 2          \* longest candidate sequence of a scan

DefaultSteps == 300
DefaultCiProb == 1

Dilutions == {1, 2}
Observations == {5, 6}
Candidates == {0, 10}

\* ------------------------------------------------------------- rationals
Abs(a) == IF a < 0 THEN -a ELSE a

RECURSIVE GCD(_, _)
GCD(a, b) == IF b = 0 THEN a ELSE GCD(b, a % b)

Rat(n, q) ==
    LET g == GCD(Abs(n), Abs(q))
        s == IF q < 0 THEN -1 ELSE 1
    IN  <<(s * n) \div g, (s * q) \div g>>

RInt(n) == <<n, 1>>
RAdd(a, b) == Rat(a[1] * b[2] + b[1] * a[2], a[2] * b[2])
RSub(a, b) == Rat(a[1] * b[2] - b[1] * a[2], a[2] * b[2])
RMul(a, b) == Rat(a[1] * b[1], a[2] * b[2])
RNeg(a) == <<-a[1], a[2]>>
RAbs(a) == <<Abs(a[1]), a[2]>>
RDiv(a, k) == Rat(a[1], a[2] * k)
RPositive(a) == a[1] > 0

\* ---------------------------------------------------------- numpy values
Scalar(r) == [shape |-> "scalar", data |-> <<r>>]
Vector(rs) == [shape |-> "vector", data |-> rs]

\* x[..., None]: a new trailing axis of length one
expand_dims(x) ==
    [shape |-> IF x.shape = "vector" THEN "column" ELSE "vector", data |-> x.data]

\* variant: the candidate is multiplied by the dilution factor
divide_multiplied(x, d_i) ==
    [shape |-> x.shape,
     data |-> [k \in DOMAIN x.data |-> RMul(x.data[k], RInt(d_i))]]

\* x / d_i, elementwise
divide(x, d_i) ==
    [shape |-> x.shape, data |-> [k \in DOMAIN x.data |-> RDiv(x.data[k], d_i)]]

\* ------------------------------------------------------ calibration model
\* The model is an external capability loglikelihood(x, y).  kind selects
\* the log-density, broadcast says whether a two-dimensional x is accepted,
\* positive_only says whether a non-positive x is a domain error.
Models ==
    [kind : {"sq", "abs"}, broadcast : BOOLEAN, positive_only : BOOLEAN]

logpdf(kind, q, y_i) ==
    LET r == RSub(RInt(y_i), q)
    IN  IF kind = "sq" THEN RNeg(RMul(r, r)) ELSE RNeg(RAbs(r))

LLRaise(e) == [status |-> "error", err |-> e, shape |-> "none", data |-> <<>>]

loglikelihood(m, x, y_i) ==
    IF x.shape = "column" /\ ~m.broadcast
    THEN LLRaise("shape")
    ELSE IF m.positive_only /\ \E k \in DOMAIN x.data : ~RPositive(x.data[k])
    THEN LLRaise("domain")
    ELSE [status |-> "value", err |-> "none", shape |-> x.shape,
          data |-> [k \in DOMAIN x.data |-> logpdf(m.kind, x.data[k], y_i)]]

\* ---------------------------------------------------- likelihood_dilution
Min(a, b) == IF a < b THEN a ELSE b

\* variant: the last pair is left out
zip_drop_last(dd, yy) ==
    [i \in 1..(Min(Len(dd), Len(yy)) - 1) |-> <<dd[i], yy[i]>>]

\* zip(d, y): pairs up to the shorter of the two
zip(dd, yy) == [i \in 1..Min(Len(dd), Len(yy)) |-> <<dd[i], yy[i]>>]

\* numpy.sum(LLs, axis=0): elementwise sum over the list, 0.0 for an empty list
RECURSIVE numpy_sum(_)
numpy_sum(LLs) ==
    IF LLs = <<>> THEN Scalar(RInt(0))
    ELSE IF Len(LLs) = 1 THEN [shape |-> LLs[1].shape, data |-> LLs[1].data]
    ELSE LET rest == numpy_sum(Tail(LLs))
         IN  [shape |-> LLs[1].shape,
              data |-> [k \in DOMAIN LLs[1].data |->
                          RAdd(LLs[1].data[k], rest.data[k])]]

\* numpy.exp, elementwise: the result holds the exponents
numpy_exp(v) == [shape |-> v.shape, exp_of |-> v.data]

Raise(e) == [status |-> "error", err |-> e, shape |-> "none", exp_of |-> <<>>]
Value(v) == [status |-> "value", err |-> "none", shape |-> v.shape, exp_of |-> v.exp_of]

\* the list comprehension: one model evaluation per zipped pair, in order
LLs_of(x, yy, dd, m) ==
    LET pairs == zip(dd, yy)
    IN  [i \in DOMAIN pairs |-> loglikelihood(m, divide(x, pairs[i][1]), pairs[i][2])]

\* variant: only the first pair contributes to the sum
likelihood_dilution_first_pair(x, yy, dd, m) ==
    LET LLs == LLs_of(x, yy, dd, m)
        bad == {i \in DOMAIN LLs : LLs[i].status = "error"}
    IN  IF bad # {}
        THEN Raise(LLs[CHOOSE i \in bad : \A j \in bad : i <= j].err)
        ELSE Value(numpy_exp(numpy_sum(SubSeq(LLs, 1, 1))))

likelihood_dilution(x, yy, dd, m) ==
    LET LLs == LLs_of(x, yy, dd, m)
        bad == {i \in DOMAIN LLs : LLs[i].status = "error"}
    IN  IF bad # {}
        THEN Raise(LLs[CHOOSE i \in bad : \A j \in bad : i <= j].err)
        ELSE Value(numpy_exp(numpy_sum(LLs)))

\* ----------------------------------------------------- likelihood_wrapper
\* variant: the loop walks x backwards
fallback_loop_reversed(x, yy, dd, m) ==
    LET M == Len(x.data)
        each == [j \in 1..M |->
                   likelihood_dilution(Scalar(x.data[M + 1 - j]), yy, dd, m)]
        bad == {j \in DOMAIN each : each[j].status = "error"}
    IN  IF bad # {}
        THEN Raise(each[CHOOSE j \in bad : \A k \in bad : j <= k].err)
        ELSE [status |-> "value", err |-> "none", shape |-> "list",
              exp_of |-> [j \in DOMAIN each |-> each[j].exp_of[1]]]

\* variant: a candidate the model rejects is left out of the list
fallback_loop_partial(x, yy, dd, m) ==
    LET each == [j \in DOMAIN x.data |->
                   likelihood_dilution(Scalar(x.data[j]), yy, dd, m)]
        good == SelectSeq([j \in DOMAIN each |-> j],
                          LAMBDA j : each[j].status = "value")
    IN  [status |-> "value", err |-> "none", shape |-> "list",
         exp_of |-> [j \in DOMAIN good |-> each[good[j]].exp_of[1]]]

\* [likelihood_dilution(xi, y, d, model) for xi in x]
fallback_loop(x, yy, dd, m) ==
    LET each == [j \in DOMAIN x.data |-> likelihood_dilution(Scalar(x.data[j]), yy, dd, m)]
        bad == {j \in DOMAIN each : each[j].status = "error"}
    IN  IF bad # {}
        THEN Raise(each[CHOOSE j \in bad : \A k \in bad : j <= k].err)
        ELSE [status |-> "value", err |-> "none", shape |-> "list",
              exp_of |-> [j \in DOMAIN each |-> each[j].exp_of[1]]]

\* the optimistic attempt inside try
vectorized(x, yy, dd, m) == likelihood_dilution(expand_dims(x), yy, dd, m)

\* variant: no except clause around the optimistic attempt
likelihood_wrapper_no_fallback(x, yy, scan_x, dd, m) ==
    IF scan_x
    THEN LET attempt == vectorized(x, yy, dd, m)
         IN  [path |-> IF attempt.status = "value" THEN "vectorized" ELSE "fallback",
              out |-> attempt]
    ELSE [path |-> "pointwise", out |-> likelihood_dilution(x, yy, dd, m)]

\* variant: the closure keeps its latest outcome and returns it again
likelihood_wrapper_cached(x, yy, scan_x, dd, m) ==
    IF last.path # "none" THEN [path |-> last.path, out |-> last.out]
    ELSE IF scan_x
    THEN LET attempt == vectorized(x, yy, dd, m)
         IN  IF attempt.status = "value"
             THEN [path |-> "vectorized", out |-> attempt]
             ELSE [path |-> "fallback", out |-> fallback_loop(x, yy, dd, m)]
    ELSE [path |-> "pointwise", out |-> likelihood_dilution(x, yy, dd, m)]

\* out is what the call returns or raises, path names the return statement
\* that was reached: the one in try, the one in except, or the last one
likelihood_wrapper(x, yy, scan_x, dd, m) ==
    IF scan_x
    THEN LET attempt == vectorized(x, yy, dd, m)
         IN  IF attempt.status = "value"
             THEN [path |-> "vectorized", out |-> attempt]
             ELSE [path |-> "fallback", out |-> fallback_loop(x, yy, dd, m)]
    ELSE [path |-> "pointwise", out |-> likelihood_dilution(x, yy, dd, m)]

\* ------------------------------------------------------ infer_independent
\* an omitted keyword argument is <<>>, a given one is <<v>>
steps_param(a) == IF a.steps = <<>> THEN DefaultSteps ELSE a.steps[1]
ci_prob_param(a) == IF a.ci_prob = <<>> THEN RInt(DefaultCiProb) ELSE a.ci_prob[1]

\* variant: lower and upper change places
infer_independent_call_swapped(yy, a) ==
    [likelihood |-> "likelihood_wrapper",
     y          |-> yy,
     lower      |-> a.upper,
     upper      |-> a.lower,
     steps      |-> steps_param(a),
     ci_prob    |-> ci_prob_param(a)]

\* the keyword arguments of the call to calibr8.infer_independent
infer_independent_call(yy, a) ==
    [likelihood |-> "likelihood_wrapper",
     y          |-> yy,
     lower      |-> a.lower,
     upper      |-> a.upper,
     steps      |-> steps_param(a),
     ci_prob    |-> ci_prob_param(a)]

\* return posterior
infer_independent_return(p) == p

\* ------------------------------------------------------------ input sets
SeqsUpTo(S, n) == UNION {[1..k -> S] : k \in 1..n}

\* the caller's keyword arguments: steps and ci_prob omitted, or given
Args ==
    {[lower |-> 0, upper |-> 20, steps |-> <<>>, ci_prob |-> <<>>],
     [lower |-> 0, upper |-> 20, steps |-> <<5>>, ci_prob |-> <<Rat(9, 10)>>]}

Posteriors == {"pst_a", "pst_b"}

\* the x the posterior routine may pass: a scan over up to MaxM candidates,
\* or pointwise a scalar or a vector index-aligned with y
ScanXs == {Vector([k \in DOMAIN s |-> RInt(s[k])]) : s \in SeqsUpTo(Candidates, MaxM)}
PointXs(yy) ==
    {Scalar(RInt(c)) : c \in Candidates}
      \cup {Vector([k \in DOMAIN s |-> RInt(s[k])]) : s \in [1..Len(yy) -> Candidates]}

Keys(yy) ==
    {[x |-> x, scan_x |-> TRUE] : x \in ScanXs}
      \cup {[x |-> x, scan_x |-> FALSE] : x \in PointXs(yy)}

NoEval == [x |-> Scalar(RInt(0)), y |-> <<>>, scan_x |-> FALSE, path |-> "none",
           out |-> Raise("none")]

\* ---------------------------------------------------------------- actions
Init ==
    /\ pc = "idle"
    /\ model = [kind |-> "sq", broadcast |-> TRUE, positive_only |-> FALSE]
    /\ d = <<1>>
    /\ y = <<5>>
    /\ args = [lower |-> 0, upper |-> 20, steps |-> <<>>, ci_prob |-> <<>>]
    /\ calls = <<>>
    /\ last = NoEval
    /\ first = <<>>
    /\ posterior = "none"
    /\ ret = "none"

\* infer_independent is entered and calls calibr8.infer_independent
Call(m, dd, yy, a) ==
    /\ pc = "idle"
    /\ pc' = "routine"
    /\ model' = m
    /\ d' = dd
    /\ y' = yy
    /\ args' = a
    /\ calls' = <<infer_independent_call(yy, a)>>
    /\ last' = NoEval
    /\ first' = [k \in Keys(yy) |-> likelihood_wrapper(k.x, yy, k.scan_x, dd, m).out]
    /\ posterior' = "none"
    /\ ret' = "none"

\* the posterior routine evaluates likelihood(x=x, y=y, scan_x=scan_x);
\* an error raised by the evaluation leaves the routine and infer_independent
Evaluate(x, scan_x) ==
    /\ pc = "routine"
    /\ \E r \in {likelihood_wrapper(x, calls[1].y, scan_x, d, model)} :
           /\ last' = [x |-> x, y |-> calls[1].y, scan_x |-> scan_x,
                       path |-> r.path, out |-> r.out]
           /\ pc' = IF r.out.status = "error" THEN "raised" ELSE "routine"
    /\ UNCHANGED <<model, d, y, args, calls, first, posterior, ret>>

\* the posterior routine returns its result object and infer_independent
\* returns it
Return(p) ==
    /\ pc = "routine"
    /\ last.path # "none"
    /\ posterior' = p
    /\ ret' = infer_independent_return(p)
    /\ pc' = "returned"
    /\ UNCHANGED <<model, d, y, args, calls, last, first>>

\* the call is over: its frame and the closure are discarded, nothing is kept
Release ==
    /\ pc \in {"returned", "raised"}
    /\ pc' = "idle"
    /\ model' = [kind |-> "sq", broadcast |-> TRUE, positive_only |-> FALSE]
    /\ d' = <<1>>
    /\ y' = <<5>>
    /\ args' = [lower |-> 0, upper |-> 20, steps |-> <<>>, ci_prob |-> <<>>]
    /\ calls' = <<>>
    /\ last' = NoEval
    /\ first' = <<>>
    /\ posterior' = "none"
    /\ ret' = "none"

Next ==
    \/ \E m \in Models, dd \in SeqsUpTo(Dilutions, MaxN),
          yy \in SeqsUpTo(Observations, MaxN), a \in Args : Call(m, dd, yy, a)
    \/ \E k \in Keys(y) : Evaluate(k.x, k.scan_x)
    \/ \E p \in Posteriors : Return(p)
    \/ Release

Spec == Init /\ [][Next]_vars

\* ============================================================= properties
\* the joint log-likelihood of one candidate xq: the sum over the pairs
\* 1..n of the model's log-density of y_i at xq / d_i
RECURSIVE JointLogLik(_, _, _, _, _)
JointLogLik(n, xq, yy, dd, kind) ==
    IF n = 0 THEN RInt(0)
    ELSE RAdd(JointLogLik(n - 1, xq, yy, dd, kind),
              logpdf(kind, RDiv(xq, dd[n]), yy[n]))

Evaluated == last.path # "none"
Succeeded == Evaluated /\ last.out.status = "value"
Aligned == Len(d) = Len(last.y)

\* the model evaluates candidate xq on its own against every zipped pair
Evaluable(xq) ==
    \A i \in DOMAIN zip(d, last.y) :
        loglikelihood(model, divide(Scalar(xq), d[i]), last.y[i]).status = "value"

Perms(n) == {f \in [1..n -> 1..n] : \A i, j \in 1..n : i # j => f[i] # f[j]}

\* C1: for d and y of equal length N >= 1, every likelihood the Composer
\* returns is exp of the N-term sum of loglikelihood(x / d_i, y_i) over all
\* pairs; for d = [1, 2], y = [5, 5], log-density -(y - x)^2 and x = 10 the
\* joint log-likelihood is -25.
C1_JointSum ==
    (Succeeded /\ Aligned) =>
        /\ Len(last.out.exp_of) = Len(last.x.data)
        /\ \A j \in DOMAIN last.x.data :
              /\ last.out.exp_of[j] =
                   JointLogLik(Len(last.y), last.x.data[j], last.y, d, model.kind)
              /\ (d = <<1, 2>> /\ last.y = <<5, 5>> /\ model.kind = "sq"
                    /\ last.x.data[j] = RInt(10))
                   => last.out.exp_of[j] = RInt(-25)

C1_Witness ==
    /\ last.path = "pointwise"
    /\ last.x = Scalar(RInt(10))
    /\ d = <<1, 2>> /\ last.y = <<5, 5>> /\ model.kind = "sq"
    /\ last.out.status = "value"
    /\ last.out.exp_of = <<RInt(-25)>>

\* C2: in scan mode the list the fallback loop produces for a model without
\* batched broadcast equals, entry by entry and in the same order, the
\* result of the single vectorized call for the same model with batched
\* broadcast.  (The vectorized result carries a trailing axis of length one;
\* entries are compared by value.)
C2_FallbackEquivalence ==
    (Succeeded /\ last.path = "fallback" /\ ~model.broadcast) =>
        LET v == vectorized(last.x, last.y, d, [model EXCEPT !.broadcast = TRUE])
        IN  /\ v.status = "value"
            /\ Len(v.exp_of) = Len(last.out.exp_of)
            /\ \A j \in DOMAIN v.exp_of : v.exp_of[j] = last.out.exp_of[j]

C2_Witness ==
    /\ last.path = "fallback"
    /\ ~model.broadcast
    /\ last.out.status = "value"
    /\ last.x.data = <<RInt(0), RInt(10)>>
    /\ Len(d) = 2 /\ Aligned

\* C3: in scan mode, when the vectorized attempt fails and the model can
\* evaluate every candidate individually, no error reaches the caller: the
\* outcome is an M-long list whose j-th entry is the joint likelihood of x_j.
C3_FallbackHidesFailure ==
    (Evaluated /\ last.path = "fallback"
       /\ \A j \in DOMAIN last.x.data : Evaluable(last.x.data[j])) =>
        /\ last.out.status = "value"
        /\ last.out.shape = "list"
        /\ pc # "raised"
        /\ Len(last.out.exp_of) = Len(last.x.data)
        /\ Aligned =>
             \A j \in DOMAIN last.x.data :
                 last.out.exp_of[j] =
                   JointLogLik(Len(last.y), last.x.data[j], last.y, d, model.kind)

C3_Witness ==
    /\ last.path = "fallback"
    /\ last.out.status = "value"
    /\ last.x.data = <<RInt(10), RInt(0)>>
    /\ d = <<2, 1>> /\ last.y = <<5, 6>>
    /\ pc = "routine"

\* C4: when the model raises for a candidate of the evaluation (scan or
\* pointwise), the evaluation ends in an error that leaves infer_independent
\* uncaught: there is no value for the evaluation and no result is returned.
C4_FailureAborts ==
    /\ (Evaluated /\ \E j \in DOMAIN last.x.data : ~Evaluable(last.x.data[j]))
          => last.out.status = "error"
    /\ (Evaluated /\ last.out.status = "error")
          => (pc = "raised" /\ last.out.exp_of = <<>> /\ ret = "none"
                /\ posterior = "none")

C4_Witness ==
    /\ pc = "raised"
    /\ last.path = "fallback"
    /\ last.x.data = <<RInt(10), RInt(0)>>
    /\ model.positive_only
    /\ last.out.status = "error"

\* C5: applying one permutation to d and y together leaves the outcome of
\* the evaluation (scan or pointwise) unchanged.
C5_OrderInvariance ==
    (Succeeded /\ Aligned) =>
        \A p \in Perms(Len(d)) :
            likelihood_wrapper(last.x, [i \in 1..Len(d) |-> last.y[p[i]]],
                               last.scan_x, [i \in 1..Len(d) |-> d[p[i]]], model).out
              = last.out

C5_Witness ==
    /\ Succeeded
    /\ d = <<1, 2>> /\ last.y = <<5, 6>>
    /\ last.x = Scalar(RInt(10))

\* C6: with a single pair the Composer returns exp(loglikelihood(x / d_0,
\* y_0)), and with d = [1] that is exp(loglikelihood(x, y_0)): the candidate
\* reaches the model unadjusted.
C6_SingleObservation ==
    (Succeeded /\ Aligned /\ Len(d) = 1) =>
        \A j \in DOMAIN last.x.data :
            /\ last.out.exp_of[j] =
                 logpdf(model.kind, RDiv(last.x.data[j], d[1]), last.y[1])
            /\ d = <<1>> =>
                 last.out.exp_of[j] = logpdf(model.kind, last.x.data[j], last.y[1])

C6_Witness ==
    /\ Succeeded
    /\ d = <<2>> /\ Len(last.y) = 1
    /\ last.x = Scalar(RInt(10))

\* C7: in pointwise mode with x index-aligned to y, the j-th returned value
\* depends on no observation other than y_j.
C7_PairedScoring ==
    (Succeeded /\ last.path = "pointwise" /\ Aligned
       /\ last.x.shape = "vector" /\ Len(last.x.data) = Len(last.y)) =>
        \A j \in 1..Len(last.y) :
            \A y2 \in [1..Len(last.y) -> Observations] :
                y2[j] = last.y[j] =>
                    likelihood_wrapper(last.x, y2, FALSE, d, model).out.exp_of[j]
                      = last.out.exp_of[j]

\* C8: infer_independent calls calibr8.infer_independent exactly once, with
\* the likelihood function and the caller's y, lower, upper, steps and
\* ci_prob unmodified (steps 300 and ci_prob 1 when omitted), and returns
\* the routine's result object unchanged.
C8_DriverPassThrough ==
    /\ pc # "idle" =>
         /\ Len(calls) = 1
         /\ calls[1].likelihood = "likelihood_wrapper"
         /\ calls[1].y = y
         /\ calls[1].lower = args.lower
         /\ calls[1].upper = args.upper
         /\ calls[1].steps = (IF args.steps = <<>> THEN 300 ELSE args.steps[1])
         /\ calls[1].ci_prob = (IF args.ci_prob = <<>> THEN RInt(1) ELSE args.ci_prob[1])
    /\ pc = "returned" => (posterior \in Posteriors /\ ret = posterior)

C8_Witness ==
    /\ pc = "returned"
    /\ args.steps = <<>>
    /\ ret = "pst_b"

====
